---- MODULE Spec2Model ----
(***************************************************************************)
(* A model of the AI document / chat subsystem of the EHR Streamlit demo:  *)
(* the DuckDB conversation store (db.py), the audit log (auth.py), the     *)
(* chat flow of show_ai_assistant (app_enhanced.py) and of the AI tools    *)
(* section (app.py), and the assembly of the text sent to the model.       *)
(*                                                                         *)
(* Text is modelled by its length in characters where only sizes matter    *)
(* (documents, notes) and by a small integer standing for the string where *)
(* identity matters (chat messages).                                       *)
(***************************************************************************)
EXTENDS Integers, Sequences, FiniteSets, TLC

VARIABLES
    now,                \* the wall clock CURRENT_TIMESTAMP reads
    ai_conversations,   \* table ai_conversations, in insertion order
    documents,          \* table documents, in insertion order
    encounters,         \* table encounters, in insertion order
    audit_log,          \* the lines of ehr_audit.log
    ai_logs,            \* table ai_logs, in insertion order
    pc,                 \* per session: where its script run stands
    app,                \* per session: the front end it runs
    patient_id,         \* per session: the patient selected in the selectbox
    chat_keys,          \* per session: patients whose chat key is in session_state
    chat,               \* per session, per patient: st.session_state[chat_key]
    prompt,             \* per session: the message typed into st.chat_input
    window,             \* per session: the user/assistant messages of the last call
    recent_docs,        \* per session: the stored documents the run picked for the context
    callStart,          \* per session: rows in ai_conversations when the call began
    outcome,            \* per session: how the current call ended
    requests,           \* chat messages and analyses submitted so far
    aiCalls,            \* calls made to the generation service so far
    processed_documents,\* per session: st.session_state.processed_documents
    upload_run,         \* per session: the last run of the upload loop
    bundle,             \* the content assembled for the last generation call
    readsSince,         \* per patient: results of the reads since the last append
    appended,           \* per patient: the turn appended last
    users,              \* the dictionary in ehr_users.json
    logins,             \* per session: the login_user call it is in
    lockout,            \* per user: failed logins in a row, and the lock they earned
    attempt,            \* the login attempt completed last
    completed           \* per user: failed attempts completed since the last reset

storeVars == <<now, ai_conversations, documents, encounters, audit_log, ai_logs>>
sessionVars == <<pc, app, patient_id, recent_docs, chat_keys, chat, prompt, window, callStart, outcome>>
uploadVars == <<processed_documents, upload_run>>
ctxVars == <<uploadVars, bundle>>
probeVars == <<readsSince, appended>>
countVars == <<requests, aiCalls>>
authVars == <<users, logins, lockout, attempt, completed>>
vars == <<storeVars, sessionVars, ctxVars, probeVars, countVars, authVars>>

----------------------------------------------------------------------------
(* Bounds of the model. *)

MaxTicks == 1
MaxPrior == 10
MaxRequests == 2
StoreMaxRows == 3
MaxUploads == 2
MaxWaits == 3
MaxLogins == 5

(* Program constants. *)

ChatWindow == 10
SingleDocCap == 8000
MultiDocCap == 3000
EncounterNoteCap == 200
RecentEncounters == 3
RecentDocuments == 3

Patients == {1, 2}
Sessions == {"s1", "s2"}
Roles == {"user", "assistant"}
Prompts == {101, 102}
\* What the user types at the n-th submission: every message differs.
Typed(n) == 100 + n
Replies == {201}
Greeting == 300

\* Python's None: what process_document returns when no branch matches, and
\* the value of a field that is not set.
None == -1

Min(a, b) == IF a < b THEN a ELSE b

Last(s) == s[Len(s)]

\* s[-k:] of Python: the last k elements of s, all of s when it is shorter.
Tail_k(s, k) == IF Len(s) <= k THEN s ELSE SubSeq(s, Len(s) - k + 1, Len(s))

----------------------------------------------------------------------------
(* db.py: the conversation store. *)

\* The row INSERT INTO ai_conversations adds: id from the sequence,
\* timestamp CURRENT_TIMESTAMP.
NewTurn(p, role, content) ==
    [id |-> Len(ai_conversations) + 1, patient_id |-> p, timestamp |-> now,
     role |-> role, content |-> content]

add_ai_conversation_entry(p, role, content) ==
    ai_conversations' = Append(ai_conversations, NewTurn(p, role, content))

\* Indices of the rows WHERE patient_id = p.
RowsOf(p) == {i \in 1..Len(ai_conversations) : ai_conversations[i].patient_id = p}

\* Every order of the rows S that ORDER BY timestamp ASC may return: ascending
\* by timestamp; the query names no second key, so rows of equal timestamp
\* come in an order SQL leaves open.
RECURSIVE OrderByTimestamp(_)
OrderByTimestamp(S) ==
    IF S = {} THEN {<<>>}
    ELSE LET first == {i \in S : \A j \in S :
                          ai_conversations[i].timestamp <= ai_conversations[j].timestamp}
         IN  UNION {{<<i>> \o rest : rest \in OrderByTimestamp(S \ {i})} : i \in first}

\* SELECT role, content: a row as the dictionary df.to_dict('records') makes.
Record(i) == [role |-> ai_conversations[i].role, content |-> ai_conversations[i].content]

\* The lists get_ai_conversation_history(p) may return.
get_ai_conversation_history(p) ==
    {[k \in 1..Len(o) |-> Record(o[k])] : o \in OrderByTimestamp(RowsOf(p))}

----------------------------------------------------------------------------
(* The clock.  CURRENT_TIMESTAMP has a finite resolution and sessions run  *)
(* in threads of one server, so two inserts may read the same value: an    *)
(* insert does not advance the clock, Tick does.                           *)

Tick ==
    /\ now < MaxPrior + MaxTicks
    /\ now' = now + 1
    /\ UNCHANGED <<ai_conversations, documents, encounters, audit_log, ai_logs>>
    /\ UNCHANGED <<sessionVars, ctxVars, probeVars, countVars>>
    /\ UNCHANGED authVars

----------------------------------------------------------------------------
(* auth.py: the user file ehr_users.json.  The file holds one dictionary,   *)
(* user name to record; every function loads the whole dictionary and      *)
(* saves the whole dictionary.                                              *)

Usernames == {"admin", "nurse"}
Passwords == {"admin123", "guess"}
Salts == {"a", "b"}

\* record_failed_login, lines 75-77: the count that locks, and for how long.
LockThreshold == 3
LockMinutes == 30

\* hash_password, lines 40-44: "salt:sha256(password + salt)".  The digest
\* is modelled by the pair it is computed from.
hash_password(password, salt) == <<salt, <<password, salt>>>>

\* verify_password, lines 46-52: recompute the digest with the stored salt.
verify_password(password, hashed) == <<password, hashed[1]>> = hashed[2]

\* The record load_users and register_user write for a new user.
NewUser(password, salt) ==
    [password |-> hash_password(password, salt), last_login |-> None,
     failed_attempts |-> 0, locked_until |-> None]

\* load_users, lines 12-33: the dictionary made when the file does not exist.
DefaultUsers == [u \in {"admin"} |-> NewUser("admin123", "a")]

\* A session that is in no login_user call.
NoLogin == [at |-> "idle", username |-> "", password |-> "", users |-> <<>>]

NoAttempt == [n |-> 0, username |-> "", password |-> "", claimed |-> "none",
              result |-> "none"]

\* No login was attempted yet: the file as load_users makes it.
AuthIdle ==
    /\ users = DefaultUsers
    /\ logins = [s \in Sessions |-> NoLogin]
    /\ lockout = [u \in Usernames |->
                     [password |-> IF u = "admin" THEN "admin123" ELSE "",
                      failed |-> 0, until |-> None]]
    /\ attempt = NoAttempt
    /\ completed = [u \in Usernames |-> 0]

----------------------------------------------------------------------------
(* Initial values shared by the specifications. *)

NoTurn == [role |-> "none", content |-> 0]
NoBundle == [kind |-> "none", sections |-> <<>>]

\* Before any file is given to the uploader: no file, no document, no message.
NoUpload == [uploaded_files |-> <<>>, processed_docs |-> <<>>, shown |-> <<>>]

SessionsIdle ==
    /\ pc = [s \in Sessions |-> "idle"]
    /\ chat_keys = [s \in Sessions |-> {}]
    /\ chat = [s \in Sessions |-> [p \in Patients |-> <<>>]]
    /\ prompt = [s \in Sessions |-> 0]
    /\ window = [s \in Sessions |-> <<>>]
    /\ recent_docs = [s \in Sessions |-> <<>>]
    /\ callStart = [s \in Sessions |-> 0]
    /\ outcome = [s \in Sessions |-> "none"]
    /\ processed_documents = [s \in Sessions |-> <<>>]
    /\ upload_run = [s \in Sessions |-> NoUpload]

LogsEmpty ==
    /\ audit_log = <<>>
    /\ ai_logs = <<>>
    /\ requests = 0
    /\ aiCalls = 0

ProbesEmpty ==
    /\ readsSince = [p \in Patients |-> {}]
    /\ appended = [p \in Patients |-> NoTurn]

----------------------------------------------------------------------------
(* auth.py and db.py: the logs. *)

\* The line log_audit_event writes: the time of the call, the action and the
\* patient.
AuditEntry(action, p) == [timestamp |-> now, action |-> action, patient_id |-> p]

\* The file opened with "w" instead of "a": the new line replaces the file.
log_audit_event_Truncates(action, p) ==
    audit_log' = <<AuditEntry(action, p)>>

\* log_audit_event: one JSON line appended to ehr_audit.log.
log_audit_event(action, p) ==
    audit_log' = Append(audit_log, AuditEntry(action, p))

\* sorted(logs, key=timestamp, reverse=True): latest first; the sort is
\* stable, so lines of equal timestamp stay in file order.
RECURSIVE SortedLatestFirst(_, _)
SortedLatestFirst(logs, S) ==
    IF S = {} THEN <<>>
    ELSE LET latest == {i \in S : \A j \in S : logs[i].timestamp >= logs[j].timestamp}
             i == CHOOSE k \in latest : \A j \in latest : k <= j
         IN  <<logs[i]>> \o SortedLatestFirst(logs, S \ {i})

\* get_audit_logs(limit): every line of the file, sorted, cut to the first
\* limit entries.
get_audit_logs(limit) ==
    LET sorted == SortedLatestFirst(audit_log, 1..Len(audit_log)) IN
    SubSeq(sorted, 1, Min(limit, Len(sorted)))

\* Rows of table documents WHERE patient_id = p.
DocsOf(p) == {i \in 1..Len(documents) : documents[i].patient_id = p}

\* Rows inserted since the model started: those of the prior history carry
\* earlier timestamps.
NewRows == {i \in 1..Len(ai_conversations) : ai_conversations[i].timestamp >= MaxPrior}

Message(role, content) == [role |-> role, content |-> content]

----------------------------------------------------------------------------
(* db.py: documents and encounters.  A text is its length in characters,   *)
(* a file path a small integer.                                           *)

\* The row INSERT INTO documents adds.
StoredDocument(p, path, len) ==
    [patient_id |-> p, file_path |-> path, text_content |-> len, upload_time |-> now]

add_document(p, path, len) ==
    documents' = Append(documents, StoredDocument(p, path, len))

\* The indices S as a list, highest first: the rows of a patient as ORDER BY
\* upload_time DESC returns them when a later insert has a later time.  The
\* contexts built from the list hold one section per row whatever the order.
RECURSIVE Descending(_)
Descending(S) ==
    IF S = {} THEN <<>>
    ELSE LET i == CHOOSE i \in S : \A j \in S : j <= i
         IN  <<i>> \o Descending(S \ {i})

\* get_documents(p): the rows of patient p, ORDER BY upload_time DESC: the
\* latest upload first.
get_documents(p) == Descending(DocsOf(p))

\* get_encounters: the encounters of patient p, ORDER BY date DESC.  The
\* encounters of the model carry distinct dates.
RECURSIVE OrderByDateDesc(_)
OrderByDateDesc(S) ==
    IF S = {} THEN <<>>
    ELSE LET i == CHOOSE i \in S : \A j \in S : encounters[j].date <= encounters[i].date
         IN  <<encounters[i]>> \o OrderByDateDesc(S \ {i})

get_encounters(p) ==
    OrderByDateDesc({i \in 1..Len(encounters) : encounters[i].patient_id = p})

\* df.head(n).
Head_n(l, n) == IF Len(l) <= n THEN l ELSE SubSeq(l, 1, n)

----------------------------------------------------------------------------
(* The text handed to the generation service, as a list of sections: what  *)
(* a section holds, how many characters its source had, how many of them   *)
(* were kept, and the note the code puts behind a cut: "counts" for a      *)
(* note with both numbers, "ellipsis" for a bare "...".                    *)

Section(name, original, retained, marker) ==
    [name |-> name, original |-> original, retained |-> retained, marker |-> marker]

\* s[:cap] followed by the note of lines 221-222 and 453-454, which is
\* written only when len(s) > cap.
CappedWithNote(name, len, cap) ==
    Section(name, len, Min(len, cap), IF len > cap THEN "counts" ELSE "none")

\* app_enhanced.py 216-222: the prompt for one text or PDF document.
get_document_analysis_prompt(file_content) ==
    [kind |-> "single",
     sections |-> <<CappedWithNote("current_upload", file_content, SingleDocCap)>>]

\* app_enhanced.py 444-455: one block per selected document.
MultiDocumentPrompt(selected_docs) ==
    [kind |-> "multi",
     sections |-> [i \in 1..Len(selected_docs) |->
                      CappedWithNote("current_upload", selected_docs[i].content,
                                     MultiDocCap)]]

\* app_enhanced.py 1662-1687 for a patient with no stored document: the
\* notes of the three most recent encounters, each cut at 200 characters and
\* followed by "..." whether cut or not.  The block of selected documents
\* (1675-1679) is empty: chat_context_documents is filled only at lines
\* 707-714, behind sort_values('created_date') of line 662, which raises
\* KeyError for want of such a column whenever there is a document to select.
ChatContext(p) ==
    LET recent_encounters == Head_n(get_encounters(p), RecentEncounters) IN
    [kind |-> "chat",
     sections |-> [i \in 1..Len(recent_encounters) |->
                      Section("encounter", recent_encounters[i].notes,
                              Min(recent_encounters[i].notes, EncounterNoteCap),
                              "ellipsis")]]

\* app.py 247-274: the text of every stored document of the patient but the
\* file just uploaded, in full, then the current report, in full.
SuggestionContext(p, file_path_saved, current_report_content) ==
    LET previous == Descending({i \in DocsOf(p) : documents[i].file_path # file_path_saved}) IN
    [kind |-> "suggestion",
     sections |-> [i \in 1..Len(previous) |->
                      Section("stored_document", documents[previous[i]].text_content,
                              documents[previous[i]].text_content, "none")]
                  \o <<Section("current_upload", current_report_content,
                               current_report_content, "none")>>]

----------------------------------------------------------------------------
(* app_enhanced.py, show_ai_assistant, tab "Clinical Chat".  One script    *)
(* run of a session: render the page (idle -> awaiting), then either a     *)
(* button (back to idle by st.rerun) or a chat submission: persist the     *)
(* user turn (assembling), build the context and issue the call            *)
(* (invoking), then the reply or the failure (persisting / error).  An     *)
(* exception nothing catches ends the run (crashed).                       *)

\* Lines 1606-1609: the chat list is read from the store only when the
\* session holds no list for the patient yet.
ChatRender(s) ==
    LET p == patient_id[s] IN
    /\ app[s] = "app_enhanced"
    /\ pc[s] = "idle"
    /\ IF p \in chat_keys[s]
       THEN UNCHANGED <<chat, chat_keys>>
       ELSE /\ \E h \in get_ai_conversation_history(p) :
                  chat' = [chat EXCEPT ![s][p] = h]
            /\ chat_keys' = [chat_keys EXCEPT ![s] = @ \cup {p}]
    /\ pc' = [pc EXCEPT ![s] = "awaiting"]
    /\ UNCHANGED <<app, patient_id, recent_docs, prompt, window, callStart, outcome>>
    /\ UNCHANGED <<storeVars, ctxVars, probeVars, countVars>>
    /\ UNCHANGED authVars

\* ChatClear deleting the patient's turns from the store as well.
ChatClear_DeletesHistory(s) ==
    LET p == patient_id[s] IN
    /\ app[s] = "app_enhanced"
    /\ pc[s] = "awaiting"
    /\ chat' = [chat EXCEPT ![s][p] = <<>>]
    /\ ai_conversations' = SelectSeq(ai_conversations, LAMBDA r : r.patient_id # p)
    /\ pc' = [pc EXCEPT ![s] = "idle"]
    /\ UNCHANGED <<app, patient_id, recent_docs, chat_keys, prompt, window, callStart, outcome>>
    /\ UNCHANGED <<now, documents, encounters, audit_log, ai_logs>>
    /\ UNCHANGED <<ctxVars, probeVars, countVars>>
    /\ UNCHANGED authVars

\* Lines 1614-1616: Clear Chat empties the session's list and reruns.
ChatClear(s) ==
    LET p == patient_id[s] IN
    /\ app[s] = "app_enhanced"
    /\ pc[s] = "awaiting"
    /\ chat' = [chat EXCEPT ![s][p] = <<>>]
    /\ pc' = [pc EXCEPT ![s] = "idle"]
    /\ UNCHANGED <<app, patient_id, recent_docs, chat_keys, prompt, window, callStart, outcome>>
    /\ UNCHANGED <<storeVars, ctxVars, probeVars, countVars>>
    /\ UNCHANGED authVars

\* ChatSubmit with the failure of the INSERT swallowed: the run goes on to
\* the call although the store holds no user turn.
ChatSubmit_StoreFailureIgnored(s, q, dbOk) ==
    LET p == patient_id[s] IN
    /\ app[s] = "app_enhanced"
    /\ pc[s] = "awaiting"
    /\ requests < MaxRequests
    /\ requests' = requests + 1
    /\ chat' = [chat EXCEPT ![s][p] = Append(@, Message("user", q))]
    /\ prompt' = [prompt EXCEPT ![s] = q]
    /\ window' = [window EXCEPT ![s] = <<>>]
    /\ callStart' = [callStart EXCEPT ![s] = Len(ai_conversations)]
    /\ IF dbOk
       THEN add_ai_conversation_entry(p, "user", q)
       ELSE UNCHANGED ai_conversations
    /\ pc' = [pc EXCEPT ![s] = "assembling"]
    /\ outcome' = [outcome EXCEPT ![s] = "none"]
    /\ UNCHANGED <<app, patient_id, recent_docs, chat_keys>>
    /\ UNCHANGED <<now, documents, encounters, audit_log, ai_logs>>
    /\ UNCHANGED <<ctxVars, probeVars, aiCalls>>
    /\ UNCHANGED authVars

\* Lines 1645-1648: the message joins the session's list, then the store.
\* dbOk is whether the INSERT succeeds; its exception is caught nowhere.
ChatSubmit(s, q, dbOk) ==
    LET p == patient_id[s] IN
    /\ app[s] = "app_enhanced"
    /\ pc[s] = "awaiting"
    /\ requests < MaxRequests
    /\ requests' = requests + 1
    /\ chat' = [chat EXCEPT ![s][p] = Append(@, Message("user", q))]
    /\ prompt' = [prompt EXCEPT ![s] = q]
    /\ window' = [window EXCEPT ![s] = <<>>]
    /\ callStart' = [callStart EXCEPT ![s] = Len(ai_conversations)]
    /\ IF dbOk
       THEN /\ add_ai_conversation_entry(p, "user", q)
            /\ pc' = [pc EXCEPT ![s] = "assembling"]
            /\ outcome' = [outcome EXCEPT ![s] = "none"]
       ELSE /\ UNCHANGED ai_conversations
            /\ pc' = [pc EXCEPT ![s] = "crashed"]
            /\ outcome' = [outcome EXCEPT ![s] = "persistence_error"]
    /\ UNCHANGED <<app, patient_id, recent_docs, chat_keys>>
    /\ UNCHANGED <<now, documents, encounters, audit_log, ai_logs>>
    /\ UNCHANGED <<ctxVars, probeVars, aiCalls>>
    /\ UNCHANGED authVars

\* Lines 1656-1750: the context is built and the call issued with it and the
\* last ten messages of the session's list.  Line 1684 keeps the last three
\* rows of what get_documents returns: patient_documents.tail(3).  get_documents returns the columns of
\* table documents, which has no document_name: line 1687 raises KeyError,
\* outside the try, whenever the patient has a stored document.
ChatAssemble(s) ==
    LET p == patient_id[s] IN
    /\ app[s] = "app_enhanced"
    /\ pc[s] = "assembling"
    /\ IF DocsOf(p) # {}
       THEN /\ pc' = [pc EXCEPT ![s] = "crashed"]
            /\ outcome' = [outcome EXCEPT ![s] = "key_error"]
            /\ UNCHANGED <<window, aiCalls, bundle>>
       ELSE /\ pc' = [pc EXCEPT ![s] = "invoking"]
            /\ bundle' = ChatContext(p)
            /\ window' = [window EXCEPT ![s] = Tail_k(chat[s][p], ChatWindow)]
            /\ aiCalls' = aiCalls + 1
            /\ UNCHANGED outcome
    /\ recent_docs' = [recent_docs EXCEPT ![s] = Tail_k(get_documents(p), RecentDocuments)]
    /\ UNCHANGED <<app, patient_id, chat_keys, chat, prompt, callStart>>
    /\ UNCHANGED <<storeVars, uploadVars, probeVars, requests>>
    /\ UNCHANGED authVars

\* Lines 1752-1765: the reply joins the session's list, then the store, then
\* the audit log; an exception of either write reaches the except of 1767.
ChatGenerateOk(s, a, dbOk, auditOk) ==
    LET p == patient_id[s] IN
    /\ app[s] = "app_enhanced"
    /\ pc[s] = "invoking"
    /\ chat' = [chat EXCEPT ![s][p] = Append(@, Message("assistant", a))]
    /\ IF dbOk
       THEN /\ add_ai_conversation_entry(p, "assistant", a)
            /\ IF auditOk
               THEN /\ log_audit_event("ai_chat_interaction", p)
                    /\ pc' = [pc EXCEPT ![s] = "persisting"]
                    /\ outcome' = [outcome EXCEPT ![s] = "ok"]
               ELSE /\ UNCHANGED audit_log
                    /\ pc' = [pc EXCEPT ![s] = "error"]
                    /\ outcome' = [outcome EXCEPT ![s] = "audit_error"]
       ELSE /\ UNCHANGED <<ai_conversations, audit_log>>
            /\ pc' = [pc EXCEPT ![s] = "error"]
            /\ outcome' = [outcome EXCEPT ![s] = "persistence_error"]
    /\ UNCHANGED <<app, patient_id, recent_docs, chat_keys, prompt, window, callStart>>
    /\ UNCHANGED <<now, documents, encounters, ai_logs>>
    /\ UNCHANGED <<ctxVars, probeVars, countVars>>
    /\ UNCHANGED authVars

\* ChatGenerateFail calling the service again instead of giving up.
ChatGenerateFail_Retried(s) ==
    /\ app[s] = "app_enhanced"
    /\ pc[s] = "invoking"
    /\ aiCalls' = aiCalls + 1
    /\ UNCHANGED <<sessionVars, storeVars, ctxVars, probeVars, requests>>
    /\ UNCHANGED authVars

\* ChatGenerateFail storing the error text as the assistant's turn.
ChatGenerateFail_ErrorStored(s) ==
    LET p == patient_id[s] IN
    /\ app[s] = "app_enhanced"
    /\ pc[s] = "invoking"
    /\ pc' = [pc EXCEPT ![s] = "error"]
    /\ outcome' = [outcome EXCEPT ![s] = "generation_error"]
    /\ chat' = [chat EXCEPT ![s][p] = Append(@, Message("assistant", 0))]
    /\ add_ai_conversation_entry(p, "assistant", 0)
    /\ UNCHANGED <<app, patient_id, recent_docs, chat_keys, prompt, window, callStart>>
    /\ UNCHANGED <<now, documents, encounters, audit_log, ai_logs>>
    /\ UNCHANGED <<ctxVars, probeVars, countVars>>
    /\ UNCHANGED authVars

\* Lines 1767-1769: the call raised; the error is shown, nothing is written.
ChatGenerateFail(s) ==
    /\ app[s] = "app_enhanced"
    /\ pc[s] = "invoking"
    /\ pc' = [pc EXCEPT ![s] = "error"]
    /\ outcome' = [outcome EXCEPT ![s] = "generation_error"]
    /\ UNCHANGED <<app, patient_id, recent_docs, chat_keys, chat, prompt, window, callStart>>
    /\ UNCHANGED <<storeVars, ctxVars, probeVars, countVars>>
    /\ UNCHANGED authVars

\* While client.responses.create of line 1746 blocks the run, the user
\* presses Clear Chat, picks another patient or reloads the page.  The run
\* holds no request identifier and looks at nothing of the kind: it goes on
\* when the call returns.
ChatAbandon(s) ==
    /\ app[s] = "app_enhanced"
    /\ pc[s] = "invoking"
    /\ pc' = [pc EXCEPT ![s] = "abandoned"]
    /\ UNCHANGED <<app, patient_id, recent_docs, chat_keys, chat, prompt, window, callStart, outcome>>
    /\ UNCHANGED <<storeVars, ctxVars, probeVars, countVars>>
    /\ UNCHANGED authVars

\* Lines 1752-1765 for a reply that comes back to an abandoned run.  Whether
\* the run gets as far as line 1756 is up to Streamlit: it may end the run at
\* st.markdown of line 1754 (stopped), or let it go on, as it does when the
\* request to rerun comes after that line or the run belongs to a page that
\* was left.  The lines themselves test nothing before they write.
ChatStaleReply(s, a, stopped, dbOk, auditOk) ==
    LET p == patient_id[s] IN
    /\ app[s] = "app_enhanced"
    /\ pc[s] = "abandoned"
    /\ IF stopped
       THEN /\ pc' = [pc EXCEPT ![s] = "crashed"]
            /\ outcome' = [outcome EXCEPT ![s] = "stopped"]
            /\ UNCHANGED <<chat, ai_conversations, audit_log>>
       ELSE /\ chat' = [chat EXCEPT ![s][p] = Append(@, Message("assistant", a))]
            /\ IF dbOk
               THEN /\ add_ai_conversation_entry(p, "assistant", a)
                    /\ IF auditOk
                       THEN /\ log_audit_event("ai_chat_interaction", p)
                            /\ pc' = [pc EXCEPT ![s] = "persisting"]
                            /\ outcome' = [outcome EXCEPT ![s] = "ok"]
                       ELSE /\ UNCHANGED audit_log
                            /\ pc' = [pc EXCEPT ![s] = "error"]
                            /\ outcome' = [outcome EXCEPT ![s] = "audit_error"]
               ELSE /\ UNCHANGED <<ai_conversations, audit_log>>
                    /\ pc' = [pc EXCEPT ![s] = "error"]
                    /\ outcome' = [outcome EXCEPT ![s] = "persistence_error"]
    /\ UNCHANGED <<app, patient_id, recent_docs, chat_keys, prompt, window, callStart>>
    /\ UNCHANGED <<now, documents, encounters, ai_logs>>
    /\ UNCHANGED <<ctxVars, probeVars, countVars>>
    /\ UNCHANGED authVars

\* The script run ends, and with it the call and its locals; the next run
\* starts from the top.
ChatFinish(s) ==
    /\ pc[s] \in {"persisting", "error", "crashed"}
    /\ pc' = [pc EXCEPT ![s] = "idle"]
    /\ prompt' = [prompt EXCEPT ![s] = 0]
    /\ window' = [window EXCEPT ![s] = <<>>]
    /\ callStart' = [callStart EXCEPT ![s] = 0]
    /\ outcome' = [outcome EXCEPT ![s] = "none"]
    /\ recent_docs' = [recent_docs EXCEPT ![s] = <<>>]
    /\ UNCHANGED <<app, patient_id, chat_keys, chat>>
    /\ UNCHANGED <<storeVars, ctxVars, probeVars, countVars>>
    /\ UNCHANGED authVars

----------------------------------------------------------------------------
(* app.py, section "AI Tools", the chat under the document analysis. *)

\* Lines 337-348: every run reloads the list from the store; an empty
\* history is replaced by a greeting that is not stored.
AppRender(s) ==
    LET p == patient_id[s] IN
    /\ app[s] = "app"
    /\ pc[s] = "idle"
    /\ \E h \in get_ai_conversation_history(p) :
          chat' = [chat EXCEPT ![s][p] =
                      IF h = <<>> THEN <<Message("assistant", Greeting)>> ELSE h]
    /\ pc' = [pc EXCEPT ![s] = "awaiting"]
    /\ UNCHANGED <<app, patient_id, recent_docs, chat_keys, prompt, window, callStart, outcome>>
    /\ UNCHANGED <<storeVars, ctxVars, probeVars, countVars>>
    /\ UNCHANGED authVars

\* Lines 356-358.
AppSubmit(s, q, dbOk) ==
    LET p == patient_id[s] IN
    /\ app[s] = "app"
    /\ pc[s] = "awaiting"
    /\ requests < MaxRequests
    /\ requests' = requests + 1
    /\ chat' = [chat EXCEPT ![s][p] = Append(@, Message("user", q))]
    /\ prompt' = [prompt EXCEPT ![s] = q]
    /\ window' = [window EXCEPT ![s] = <<>>]
    /\ callStart' = [callStart EXCEPT ![s] = Len(ai_conversations)]
    /\ IF dbOk
       THEN /\ add_ai_conversation_entry(p, "user", q)
            /\ pc' = [pc EXCEPT ![s] = "assembling"]
            /\ outcome' = [outcome EXCEPT ![s] = "none"]
       ELSE /\ UNCHANGED ai_conversations
            /\ pc' = [pc EXCEPT ![s] = "crashed"]
            /\ outcome' = [outcome EXCEPT ![s] = "persistence_error"]
    /\ UNCHANGED <<app, patient_id, recent_docs, chat_keys>>
    /\ UNCHANGED <<now, documents, encounters, audit_log, ai_logs>>
    /\ UNCHANGED <<ctxVars, probeVars, aiCalls>>
    /\ UNCHANGED authVars

\* The messages of a list whose role is user or assistant (lines 386-388).
RECURSIVE UserAssistant(_)
UserAssistant(l) ==
    IF l = <<>> THEN <<>>
    ELSE IF l[1].role \in Roles THEN <<l[1]>> \o UserAssistant(Tail(l))
         ELSE UserAssistant(Tail(l))

\* Lines 367-396: every message of the list is sent, with no limit.
AppAssemble(s) ==
    LET p == patient_id[s] IN
    /\ app[s] = "app"
    /\ pc[s] = "assembling"
    /\ pc' = [pc EXCEPT ![s] = "invoking"]
    /\ window' = [window EXCEPT ![s] = UserAssistant(chat[s][p])]
    /\ aiCalls' = aiCalls + 1
    /\ UNCHANGED <<app, patient_id, recent_docs, chat_keys, chat, prompt, callStart, outcome>>
    /\ UNCHANGED <<storeVars, ctxVars, probeVars, requests>>
    /\ UNCHANGED authVars

\* Lines 397-400: the reply joins the list and the store; nothing is logged.
AppGenerateOk(s, a, dbOk) ==
    LET p == patient_id[s] IN
    /\ app[s] = "app"
    /\ pc[s] = "invoking"
    /\ chat' = [chat EXCEPT ![s][p] = Append(@, Message("assistant", a))]
    /\ IF dbOk
       THEN /\ add_ai_conversation_entry(p, "assistant", a)
            /\ pc' = [pc EXCEPT ![s] = "persisting"]
            /\ outcome' = [outcome EXCEPT ![s] = "ok"]
       ELSE /\ UNCHANGED ai_conversations
            /\ pc' = [pc EXCEPT ![s] = "error"]
            /\ outcome' = [outcome EXCEPT ![s] = "persistence_error"]
    /\ UNCHANGED <<app, patient_id, recent_docs, chat_keys, prompt, window, callStart>>
    /\ UNCHANGED <<now, documents, encounters, audit_log, ai_logs>>
    /\ UNCHANGED <<ctxVars, probeVars, countVars>>
    /\ UNCHANGED authVars

\* Lines 402-406: the error is shown and not appended to the history.
AppGenerateFail(s) ==
    /\ app[s] = "app"
    /\ pc[s] = "invoking"
    /\ pc' = [pc EXCEPT ![s] = "error"]
    /\ outcome' = [outcome EXCEPT ![s] = "generation_error"]
    /\ UNCHANGED <<app, patient_id, recent_docs, chat_keys, chat, prompt, window, callStart>>
    /\ UNCHANGED <<storeVars, ctxVars, probeVars, countVars>>
    /\ UNCHANGED authVars

----------------------------------------------------------------------------
(* The chat of one session, of either front end and on either patient,     *)
(* over the store.  Patient 1 starts with no history or with MaxPrior       *)
(* turns written earlier; patient 2 may have a stored document.             *)

PriorHistory(n) ==
    [i \in 1..n |-> [id |-> i, patient_id |-> 1, timestamp |-> i - 1,
                     role |-> IF i % 2 = 1 THEN "user" ELSE "assistant",
                     content |-> i]]

\* Four encounters of patient 1 recorded earlier, on distinct dates, the
\* third with notes of 50 characters, the others of 250; patient 2 has none.
PriorEncounters ==
    [i \in 1..4 |-> [patient_id |-> 1, type |-> "Consultation", date |-> i,
                     notes |-> IF i = 3 THEN 50 ELSE 250]]

ChatSessions == {"s1"}

\* The documents stored earlier: five of patient 1, of 10,000 characters
\* each, and one of patient 2.
PriorDocuments ==
    [i \in 1..6 |-> [patient_id |-> IF i <= 5 THEN 1 ELSE 2, file_path |-> i,
                     text_content |-> 10000, upload_time |-> i]]

InitChat ==
    /\ now = MaxPrior
    /\ ai_conversations \in {PriorHistory(0), PriorHistory(MaxPrior)}
    /\ documents \in {<<>>, <<StoredDocument(2, 1, 1)>>, PriorDocuments}
    /\ encounters = PriorEncounters
    /\ app \in {f \in [Sessions -> {"app_enhanced", "app"}] : f["s2"] = "app"}
    /\ patient_id \in {f \in [Sessions -> Patients] : f["s2"] = 1}
    /\ bundle = NoBundle
    /\ SessionsIdle
    /\ LogsEmpty
    /\ ProbesEmpty
    /\ AuthIdle

NextChat ==
    \/ Tick
    \/ \E s \in ChatSessions : ChatRender(s)
    \/ \E s \in ChatSessions : ChatClear(s)
    \/ \E s \in ChatSessions, dbOk \in BOOLEAN : ChatSubmit(s, Typed(requests + 1), dbOk)
    \/ \E s \in ChatSessions : ChatAssemble(s)
    \/ \E s \in ChatSessions, a \in Replies, dbOk \in BOOLEAN, auditOk \in BOOLEAN :
          ChatGenerateOk(s, a, dbOk, auditOk)
    \/ \E s \in ChatSessions : ChatGenerateFail(s)
    \/ \E s \in ChatSessions : ChatAbandon(s)
    \/ \E s \in ChatSessions, a \in Replies, stopped \in BOOLEAN, dbOk \in BOOLEAN,
          auditOk \in BOOLEAN :
          ChatStaleReply(s, a, stopped, dbOk, auditOk)
    \/ \E s \in ChatSessions : ChatFinish(s)
    \/ \E s \in ChatSessions : AppRender(s)
    \/ \E s \in ChatSessions, dbOk \in BOOLEAN : AppSubmit(s, Typed(requests + 1), dbOk)
    \/ \E s \in ChatSessions : AppAssemble(s)
    \/ \E s \in ChatSessions, a \in Replies, dbOk \in BOOLEAN : AppGenerateOk(s, a, dbOk)
    \/ \E s \in ChatSessions : AppGenerateFail(s)

SpecChat == InitChat /\ [][NextChat]_vars

----------------------------------------------------------------------------
(* The store on its own: clients append turns and read histories. *)

StoreAppend(p, role, content) ==
    /\ Len(ai_conversations) < StoreMaxRows
    /\ add_ai_conversation_entry(p, role, content)
    /\ appended' = [appended EXCEPT ![p] = [role |-> role, content |-> content]]
    /\ readsSince' = [readsSince EXCEPT ![p] = {}]
    /\ UNCHANGED <<now, documents, encounters, audit_log, ai_logs>>
    /\ UNCHANGED <<sessionVars, ctxVars, countVars>>
    /\ UNCHANGED authVars

StoreRead(p) ==
    /\ \E r \in get_ai_conversation_history(p) :
          readsSince' = [readsSince EXCEPT ![p] = @ \cup {r}]
    /\ UNCHANGED appended
    /\ UNCHANGED <<storeVars, sessionVars, ctxVars, countVars>>
    /\ UNCHANGED authVars

InitStore ==
    /\ now = MaxPrior
    /\ ai_conversations = <<>>
    /\ documents = <<>>
    /\ encounters = <<>>
    /\ app = [s \in Sessions |-> "app_enhanced"]
    /\ patient_id = [s \in Sessions |-> 1]
    /\ bundle = NoBundle
    /\ SessionsIdle
    /\ LogsEmpty
    /\ ProbesEmpty
    /\ AuthIdle

NextStore ==
    \/ Tick
    \/ \E p \in Patients, role \in Roles, content \in Prompts : StoreAppend(p, role, content)
    \/ \E p \in Patients : StoreRead(p)

SpecStore == InitStore /\ [][NextStore]_vars

----------------------------------------------------------------------------
(* app_enhanced.py, tab "Document Analysis", and app.py, "Get AI           *)
(* Suggestion".  A handler runs to its end within one script run, so each   *)
(* is one step.                                                             *)

\* The length of the description that stands for an image's content.
ImageNote == 300

\* Line 149: uploaded_file.type.startswith("image/").
IsImage(type) == type \in {"image/jpeg", "image/png", "image/gif"}

\* process_document, lines 109-185.  A file is its name, its declared type,
\* the length of its text and whether it can be read (a text that decodes, a
\* PDF or an image that parses); a PDF also has a number of pages and the
\* page on which page.extract_text() raises (0: none).  The size in bytes of
\* the metadata is taken equal to the number of characters; pages stands for
\* the title, author, creator and page count that lines 135-142 add after
\* the loop over the pages, None before.  A failure inside the try block is
\* raised again as an Exception, and nothing is returned; a type that matches
\* no branch falls through to the last line, which returns None as the
\* content.
process_document(uploaded_file) ==
    LET file_metadata ==
            [name |-> uploaded_file.name, size |-> uploaded_file.len, pages |-> None]
    IN
    IF uploaded_file.type = "text/plain" THEN
        IF uploaded_file.ok
        THEN [raised |-> FALSE, content |-> uploaded_file.len, metadata |-> file_metadata, type |-> "text"]
        ELSE [raised |-> TRUE, content |-> None, metadata |-> file_metadata, type |-> "unknown"]
    ELSE IF uploaded_file.type = "application/pdf" THEN
        IF uploaded_file.ok /\ uploaded_file.failsAt \notin 1..uploaded_file.pages
        THEN [raised |-> FALSE, content |-> uploaded_file.len,
              metadata |-> [file_metadata EXCEPT !.pages = uploaded_file.pages], type |-> "pdf"]
        ELSE [raised |-> TRUE, content |-> None, metadata |-> file_metadata, type |-> "unknown"]
    ELSE IF IsImage(uploaded_file.type) THEN
        IF uploaded_file.ok
        THEN [raised |-> FALSE, content |-> ImageNote, metadata |-> file_metadata, type |-> "image"]
        ELSE [raised |-> TRUE, content |-> None, metadata |-> file_metadata, type |-> "unknown"]
    ELSE [raised |-> FALSE, content |-> None, metadata |-> file_metadata, type |-> "unknown"]

\* The entry appended at lines 1813-1820 for a result with a content.
ProcessedDoc(result) ==
    [name |-> result.metadata.name, type |-> result.type,
     content |-> result.content, size |-> result.metadata.size,
     pages |-> result.metadata.pages]

\* The loop of lines 1799-1823 over the files left to process: the entries
\* collected in processed_docs and the messages shown.  An exception of
\* process_document is caught and shown by st.error; a result whose content
\* is None is passed over and shows nothing.
RECURSIVE UploadLoop_AbortsOnFailure(_, _, _)
UploadLoop_AbortsOnFailure(uploaded_files, processed_docs, shown) ==
    IF uploaded_files = <<>> THEN [processed_docs |-> processed_docs, shown |-> shown]
    ELSE LET result == process_document(Head(uploaded_files)) IN
         IF result.raised
         THEN [processed_docs |-> processed_docs,
               shown |-> Append(shown, [kind |-> "error", name |-> result.metadata.name])]
         ELSE IF result.content # None
         THEN UploadLoop_AbortsOnFailure(Tail(uploaded_files), Append(processed_docs, ProcessedDoc(result)), shown)
         ELSE UploadLoop_AbortsOnFailure(Tail(uploaded_files), processed_docs, shown)

RECURSIVE UploadLoop(_, _, _)
UploadLoop(uploaded_files, processed_docs, shown) ==
    IF uploaded_files = <<>> THEN [processed_docs |-> processed_docs, shown |-> shown]
    ELSE LET result == process_document(Head(uploaded_files)) IN
         IF result.raised
         THEN UploadLoop(Tail(uploaded_files), processed_docs,
                         Append(shown, [kind |-> "error", name |-> result.metadata.name]))
         ELSE IF result.content # None
         THEN UploadLoop(Tail(uploaded_files), Append(processed_docs, ProcessedDoc(result)), shown)
         ELSE UploadLoop(Tail(uploaded_files), processed_docs, shown)

\* One run of lines 1797-1827 over the files the uploader holds: the files,
\* the entries collected, and the messages shown, the last of which counts
\* the entries when there are any.
UploadRun(uploaded_files) ==
    LET loop == UploadLoop(uploaded_files, <<>>, <<>>)
        processed_docs == loop.processed_docs
    IN
    [uploaded_files |-> uploaded_files, processed_docs |-> processed_docs,
     shown |-> IF processed_docs # <<>>
               THEN Append(loop.shown, [kind |-> "success", name |-> Len(processed_docs)])
               ELSE loop.shown]

\* The session's list after the top of a script run.  st.file_uploader
\* returns the files it holds on every run and st.tabs runs the body of every
\* tab, so each run of the page, whatever caused it, goes through lines
\* 1797-1827 again and extends the list by the entries of those files.
PageRun(s) == processed_documents[s] \o UploadRun(upload_run[s].uploaded_files).processed_docs

\* The user changes the files in the uploader; the page runs with the new
\* value of the widget: every file of it is processed in turn and the entries
\* collected join the session's list of documents.
ProcessUploads(s, uploaded_files) ==
    /\ app[s] = "app_enhanced"
    /\ pc[s] = "idle"
    /\ uploaded_files # <<>>
    /\ uploaded_files # upload_run[s].uploaded_files
    /\ Len(processed_documents[s]) + Len(UploadRun(uploaded_files).processed_docs) <= MaxUploads
    /\ processed_documents' =
          [processed_documents EXCEPT ![s] = @ \o UploadRun(uploaded_files).processed_docs]
    /\ upload_run' = [upload_run EXCEPT ![s] = UploadRun(uploaded_files)]
    /\ UNCHANGED <<bundle, storeVars, sessionVars, probeVars, countVars>>
    /\ UNCHANGED authVars

\* The page runs again for a reason of its own (a box ticked, an expander
\* opened, another tab's widget) while the uploader still holds its files.
Rerun(s) ==
    /\ app[s] = "app_enhanced"
    /\ pc[s] = "idle"
    /\ upload_run[s].uploaded_files # <<>>
    /\ Len(PageRun(s)) <= MaxUploads
    /\ processed_documents' = [processed_documents EXCEPT ![s] = PageRun(s)]
    /\ UNCHANGED <<upload_run, bundle, storeVars, sessionVars, probeVars, countVars>>
    /\ UNCHANGED authVars

\* The user removes the files from the uploader: the page runs with no file
\* and the loop is skipped (line 1797).
RemoveUploads(s) ==
    /\ app[s] = "app_enhanced"
    /\ pc[s] = "idle"
    /\ upload_run[s].uploaded_files # <<>>
    /\ upload_run' = [upload_run EXCEPT ![s] = NoUpload]
    /\ UNCHANGED <<processed_documents, bundle, storeVars, sessionVars, probeVars, countVars>>
    /\ UNCHANGED authVars

\* Lines 1830-1843: Clear All, shown when the list is not empty, empties the
\* list and calls st.rerun(): the run that follows processes the files the
\* uploader still holds.
ClearAll(s) ==
    /\ app[s] = "app_enhanced"
    /\ pc[s] = "idle"
    /\ PageRun(s) # <<>>
    /\ processed_documents' =
          [processed_documents EXCEPT ![s] = UploadRun(upload_run[s].uploaded_files).processed_docs]
    /\ UNCHANGED <<upload_run, bundle, storeVars, sessionVars, probeVars, countVars>>
    /\ UNCHANGED authVars

\* The number of digits of n: the length of str(n).
RECURSIVE Digits(_)
Digits(n) == IF n < 10 THEN 1 ELSE 1 + Digits(n \div 10)

RECURSIVE SumOfSizes(_)
SumOfSizes(docs) == IF docs = <<>> THEN 0 ELSE docs[1].size + SumOfSizes(Tail(docs))

\* Lines 375-384 and 584-593, after the call: the analysis is stored as a
\* document whose text_content is the size, then the audit entry is written;
\* an exception of either is caught by the inner except and shown as a
\* warning.  A failed call (except of 382 and 591) writes nothing.
\* failure names the call that raises, if any: "generation", "save" (the
\* insert), "audit" (the log), or "none".
SaveAnalysis(s, action, size, failure) ==
    LET p == patient_id[s] IN
    /\ IF failure \in {"none", "audit"}
       THEN add_document(p, 0, Digits(size))
       ELSE UNCHANGED documents
    /\ IF failure = "none"
       THEN log_audit_event(action, p)
       ELSE UNCHANGED audit_log
    /\ outcome' = [outcome EXCEPT ![s] =
                      IF failure = "generation" THEN "generation_error"
                      ELSE IF failure = "none" THEN "ok" ELSE "save_error"]

\* perform_document_analysis recording the analysis as a chat turn too.
perform_document_analysis_TurnAdded(s, file_content, failure) ==
    /\ app[s] = "app_enhanced"
    /\ pc[s] = "idle"
    /\ requests < MaxRequests
    /\ requests' = requests + 1
    /\ bundle' = get_document_analysis_prompt(file_content)
    /\ aiCalls' = aiCalls + 1
    /\ SaveAnalysis(s, "document_analysis", file_content, failure)
    /\ add_ai_conversation_entry(patient_id[s], "assistant", 0)
    /\ UNCHANGED <<now, encounters, ai_logs>>
    /\ UNCHANGED <<pc, app, patient_id, recent_docs, chat_keys, chat, prompt, window, callStart>>
    /\ UNCHANGED <<uploadVars, probeVars>>
    /\ UNCHANGED authVars

\* perform_document_analysis (262-384): the prompt of one document is built
\* and sent.
perform_document_analysis(s, file_content, failure) ==
    /\ app[s] = "app_enhanced"
    /\ pc[s] = "idle"
    /\ requests < MaxRequests
    /\ requests' = requests + 1
    /\ bundle' = get_document_analysis_prompt(file_content)
    /\ aiCalls' = aiCalls + 1
    /\ SaveAnalysis(s, "document_analysis", file_content, failure)
    /\ UNCHANGED <<now, ai_conversations, encounters, ai_logs>>
    /\ UNCHANGED <<pc, app, patient_id, recent_docs, chat_keys, chat, prompt, window, callStart>>
    /\ UNCHANGED <<uploadVars, probeVars>>
    /\ UNCHANGED authVars

\* perform_multi_document_analysis (430-593): one prompt of all selected
\* documents is built and sent.
perform_multi_document_analysis(s, selected_docs, failure) ==
    /\ bundle' = MultiDocumentPrompt(selected_docs)
    /\ aiCalls' = aiCalls + 1
    /\ SaveAnalysis(s, "multi_document_analysis", SumOfSizes(selected_docs), failure)

\* The documents of docs whose box "Include in Analysis" is ticked.
RECURSIVE Included(_, _, _)
Included(docs, include, i) ==
    IF i > Len(docs) THEN <<>>
    ELSE (IF i \in include THEN <<docs[i]>> ELSE <<>>) \o Included(docs, include, i + 1)

\* Lines 1892-1898: Analyze Selected Documents, pressed in a run that has
\* gone through the upload loop first.
AnalyzeSelected(s, include, failure) ==
    LET selected_docs == Included(PageRun(s), include, 1) IN
    /\ app[s] = "app_enhanced"
    /\ pc[s] = "idle"
    /\ PageRun(s) # <<>>
    /\ Len(PageRun(s)) <= MaxUploads
    /\ include \subseteq 1..Len(PageRun(s))
    /\ processed_documents' = [processed_documents EXCEPT ![s] = PageRun(s)]
    /\ requests < MaxRequests
    /\ requests' = requests + 1
    /\ IF selected_docs # <<>>
       THEN perform_multi_document_analysis(s, selected_docs, failure)
       ELSE /\ failure = "none"
            /\ UNCHANGED <<bundle, aiCalls, documents, audit_log, outcome>>
    /\ UNCHANGED <<now, ai_conversations, encounters, ai_logs>>
    /\ UNCHANGED <<pc, app, patient_id, recent_docs, chat_keys, chat, prompt, window, callStart>>
    /\ UNCHANGED <<upload_run, probeVars>>
    /\ UNCHANGED authVars

\* add_ai_log: one row of table ai_logs.
add_ai_log(p, interaction_type) ==
    ai_logs' = Append(ai_logs, [patient_id |-> p, interaction_type |-> interaction_type])

\* The patient has a consultation to select (app.py 189-203).
HasConsultation(p) ==
    \E i \in 1..Len(encounters) :
        encounters[i].patient_id = p /\ encounters[i].type = "Consultation"

\* app.py 207-329, a run with the button Get AI Suggestion pressed.  file is
\* the length of the text of the uploaded file (0: no file), saved under
\* file_path_saved and stored as a document before the button is looked at;
\* pasted is the length of the text area.  failure names the call that
\* raises, if any: "upload" (the insert of the document, caught nowhere),
\* "generation", "save" (the insert of the reply as a turn, line 322) or
\* "log" (add_ai_log, line 325), the last three caught by the except of
\* line 327.
AppSuggest(s, file_path_saved, file, pasted, a, failure) ==
    LET p == patient_id[s]
        current_report_content == IF file # 0 THEN file ELSE pasted
    IN
    /\ app[s] = "app"
    /\ pc[s] = "idle"
    /\ HasConsultation(p)
    /\ requests < MaxRequests
    /\ requests' = requests + 1
    /\ failure = "upload" => file # 0
    /\ current_report_content = 0 => failure = "none"
    /\ IF file # 0 /\ failure # "upload"
       THEN add_document(p, file_path_saved, file)
       ELSE UNCHANGED documents
    /\ IF failure = "upload" \/ current_report_content = 0
       THEN /\ outcome' = [outcome EXCEPT ![s] =
                              IF failure = "upload" THEN "persistence_error" ELSE "none"]
            /\ UNCHANGED <<bundle, aiCalls, ai_conversations, ai_logs>>
       ELSE /\ bundle' = SuggestionContext(p, file_path_saved, current_report_content)
            /\ aiCalls' = aiCalls + 1
            /\ IF failure \in {"none", "log"}
               THEN add_ai_conversation_entry(p, "assistant", a)
               ELSE UNCHANGED ai_conversations
            /\ IF failure = "none"
               THEN add_ai_log(p, "document_analysis")
               ELSE UNCHANGED ai_logs
            /\ outcome' = [outcome EXCEPT ![s] =
                              IF failure = "generation" THEN "generation_error"
                              ELSE IF failure = "none" THEN "ok" ELSE "persistence_error"]
    /\ UNCHANGED <<now, encounters, audit_log>>
    /\ UNCHANGED <<pc, app, patient_id, recent_docs, chat_keys, chat, prompt, window, callStart>>
    /\ UNCHANGED <<uploadVars, probeVars>>
    /\ UNCHANGED authVars

UploadLens == {500, 4000}

\* A readable text file of the given length, the first of its batch.
TextFile(len) ==
    [name |-> 1, type |-> "text/plain", len |-> len, ok |-> TRUE, pages |-> 0, failsAt |-> 0]
ReportLens == {500, 10000}
UploadPath == 11

\* What a run of app.py is given: a file, a pasted text, or neither.
Reports ==
    {[file |-> len, pasted |-> 0] : len \in ReportLens}
        \cup {[file |-> 0, pasted |-> len] : len \in {0, 500}}

AnalysisFailures == {"none", "generation", "save", "audit"}
SuggestionFailures == {"none", "upload", "generation", "save", "log"}

InitCtx ==
    /\ now = MaxPrior
    /\ ai_conversations = <<>>
    /\ documents = PriorDocuments
    /\ encounters = PriorEncounters
    /\ app = [s \in Sessions |-> IF s = "s1" THEN "app_enhanced" ELSE "app"]
    /\ patient_id = [s \in Sessions |-> 1]
    /\ bundle = NoBundle
    /\ SessionsIdle
    /\ LogsEmpty
    /\ ProbesEmpty
    /\ AuthIdle

NextCtx ==
    \/ \E s \in Sessions, len \in UploadLens : ProcessUploads(s, <<TextFile(len)>>)
    \/ \E s \in Sessions : Rerun(s)
    \/ \E s \in Sessions : RemoveUploads(s)
    \/ \E s \in Sessions : ClearAll(s)
    \/ \E s \in Sessions, include \in SUBSET (1..MaxUploads), failure \in AnalysisFailures :
          AnalyzeSelected(s, include, failure)
    \/ \E s \in Sessions, len \in ReportLens, failure \in AnalysisFailures :
          perform_document_analysis(s, len, failure)
    \/ \E s \in Sessions, r \in Reports, a \in Replies, failure \in SuggestionFailures :
          AppSuggest(s, UploadPath, r.file, r.pasted, a, failure)

SpecCtx == InitCtx /\ [][NextCtx]_vars

\* The handlers that make a one-shot generation call, and the uploads that
\* feed them, without the handlers that only manage the uploader.
NextOneShot ==
    \/ \E s \in Sessions, len \in UploadLens : ProcessUploads(s, <<TextFile(len)>>)
    \/ \E s \in Sessions, include \in SUBSET (1..MaxUploads), failure \in AnalysisFailures :
          AnalyzeSelected(s, include, failure)
    \/ \E s \in Sessions, len \in ReportLens, failure \in AnalysisFailures :
          perform_document_analysis(s, len, failure)
    \/ \E s \in Sessions, r \in Reports, a \in Replies, failure \in SuggestionFailures :
          AppSuggest(s, UploadPath, r.file, r.pasted, a, failure)

SpecOneShot == InitCtx /\ [][NextOneShot]_vars

----------------------------------------------------------------------------
(* The Document Analysis tab while the user moves from one patient to      *)
(* another.                                                                *)

\* Line 1594: another patient is picked in the selectbox.  The script runs
\* again with the new patient_id and, as every run, through the upload loop;
\* nothing else of st.session_state is touched.
SelectPatient(s, p) ==
    /\ app[s] = "app_enhanced"
    /\ pc[s] = "idle"
    /\ p # patient_id[s]
    /\ patient_id' = [patient_id EXCEPT ![s] = p]
    /\ Len(PageRun(s)) <= MaxUploads
    /\ processed_documents' = [processed_documents EXCEPT ![s] = PageRun(s)]
    /\ UNCHANGED <<pc, app, recent_docs, chat_keys, chat, prompt, window, callStart, outcome>>
    /\ UNCHANGED <<storeVars, upload_run, bundle, probeVars, countVars>>
    /\ UNCHANGED authVars

\* The rows save_multiple_documents_to_record inserts for docs, in order
\* (lines 601-625): add_document is given the summary, which names the file,
\* as file_path and the size as text_content.
RECURSIVE SavedRows(_, _)
SavedRows(p, docs) ==
    IF docs = <<>> THEN <<>>
    ELSE <<StoredDocument(p, docs[1].name, docs[1].size)>> \o SavedRows(p, Tail(docs))

\* Lines 1900-1901 and 595-645: Save All to Patient Record stores every
\* document of the session's list under the patient selected now, then
\* writes one audit entry, outside any try.
SaveAllToRecord(s, auditOk) ==
    LET p == patient_id[s] IN
    /\ app[s] = "app_enhanced"
    /\ pc[s] = "idle"
    /\ PageRun(s) # <<>>
    /\ Len(PageRun(s)) <= MaxUploads
    /\ Len(documents) + Len(PageRun(s)) <= Len(PriorDocuments) + MaxUploads
    /\ processed_documents' = [processed_documents EXCEPT ![s] = PageRun(s)]
    /\ documents' = documents \o SavedRows(p, PageRun(s))
    /\ IF auditOk
       THEN /\ log_audit_event("batch_document_upload", p)
            /\ outcome' = [outcome EXCEPT ![s] = "ok"]
       ELSE /\ UNCHANGED audit_log
            /\ outcome' = [outcome EXCEPT ![s] = "audit_error"]
    /\ UNCHANGED <<now, ai_conversations, encounters, ai_logs>>
    /\ UNCHANGED <<pc, app, patient_id, recent_docs, chat_keys, chat, prompt, window, callStart>>
    /\ UNCHANGED <<upload_run, bundle, probeVars, countVars>>
    /\ UNCHANGED authVars

\* The file uploaded for patient p: it is named after the patient, and its
\* length tells the patients apart.
PatientFile(p) ==
    [name |-> p, type |-> "text/plain", len |-> IF p = 1 THEN 500 ELSE 4000,
     ok |-> TRUE, pages |-> 0, failsAt |-> 0]

NextSwitch ==
    \/ \E s \in Sessions : ProcessUploads(s, <<PatientFile(patient_id[s])>>)
    \/ \E s \in Sessions : RemoveUploads(s)
    \/ \E s \in Sessions : ClearAll(s)
    \/ \E s \in Sessions, p \in Patients : SelectPatient(s, p)
    \/ \E s \in Sessions, include \in SUBSET (1..MaxUploads), failure \in {"none", "generation"} :
          AnalyzeSelected(s, include, failure)
    \/ \E s \in Sessions, auditOk \in BOOLEAN : SaveAllToRecord(s, auditOk)

SpecSwitch == InitCtx /\ [][NextSwitch]_vars

----------------------------------------------------------------------------
(* The upload loop alone, given batches of files of several declared       *)
(* types, some of which cannot be read.                                    *)

\* What the i-th file of a batch can be: a text that does not decode (one
\* that does is TextFile), a PDF of three pages, a PDF whose second page cannot be
\* extracted, a GIF image, a Word document.
FilesAt(i) ==
    {[name |-> i, type |-> "text/plain", len |-> 500, ok |-> FALSE, pages |-> 0, failsAt |-> 0],
     [name |-> i, type |-> "application/pdf", len |-> 4000, ok |-> TRUE, pages |-> 3, failsAt |-> 0],
     [name |-> i, type |-> "application/pdf", len |-> 4000, ok |-> TRUE, pages |-> 3, failsAt |-> 2],
     [name |-> i, type |-> "image/gif", len |-> 4000, ok |-> TRUE, pages |-> 0, failsAt |-> 0],
     [name |-> i, type |-> "application/msword", len |-> 4000, ok |-> TRUE, pages |-> 0, failsAt |-> 0]}

\* The batches of one, two or three files; the files are named by position.
Batches ==
    {<<f1>> : f1 \in FilesAt(1)}
        \cup {<<f1, f2>> : f1 \in FilesAt(1), f2 \in FilesAt(2)}
        \cup {<<f1, f2, f3>> : f1 \in FilesAt(1), f2 \in FilesAt(2), f3 \in FilesAt(3)}

InitUpload ==
    /\ now = MaxPrior
    /\ ai_conversations = <<>>
    /\ documents = <<>>
    /\ encounters = <<>>
    /\ app = [s \in Sessions |-> IF s = "s1" THEN "app_enhanced" ELSE "app"]
    /\ patient_id = [s \in Sessions |-> 1]
    /\ bundle = NoBundle
    /\ SessionsIdle
    /\ LogsEmpty
    /\ ProbesEmpty
    /\ AuthIdle

NextUpload ==
    \/ \E s \in Sessions, uploaded_files \in Batches : ProcessUploads(s, uploaded_files)
    \/ \E s \in Sessions : Rerun(s)
    \/ \E s \in Sessions : RemoveUploads(s)
    \/ \E s \in Sessions : ClearAll(s)

SpecUpload == InitUpload /\ [][NextUpload]_vars

----------------------------------------------------------------------------
(* auth.py: login and lockout.  The functions below are given the          *)
(* dictionary they loaded and return the dictionary they save.             *)

\* is_account_locked without the test of line 60: no account is ever
\* reported locked.
is_account_locked_IgnoresLock(us, username) ==
    [locked |-> FALSE, users |-> us, saved |-> FALSE]

\* is_account_locked, lines 54-67: locked while now is before locked_until;
\* a lock that has expired is cleared and the dictionary saved.
is_account_locked(us, username) ==
    IF username \in DOMAIN us /\ us[username].locked_until # None
    THEN IF now < us[username].locked_until
         THEN [locked |-> TRUE, users |-> us, saved |-> FALSE]
         ELSE [locked |-> FALSE, saved |-> TRUE,
               users |-> [us EXCEPT ![username].locked_until = None,
                                    ![username].failed_attempts = 0]]
    ELSE [locked |-> FALSE, users |-> us, saved |-> FALSE]

\* record_failed_login locking at the first failed attempt.
record_failed_login_LocksAtOnce(us, username) ==
    IF username \in DOMAIN us
    THEN LET n == us[username].failed_attempts + 1 IN
         [us EXCEPT ![username].failed_attempts = n,
                    ![username].locked_until = now + LockMinutes]
    ELSE us

\* record_failed_login, lines 69-78.
record_failed_login(us, username) ==
    IF username \in DOMAIN us
    THEN LET n == us[username].failed_attempts + 1 IN
         [us EXCEPT ![username].failed_attempts = n,
                    ![username].locked_until =
                        IF n >= LockThreshold THEN now + LockMinutes ELSE @]
    ELSE us

\* record_successful_login, lines 80-88.
record_successful_login(us, username) ==
    IF username \in DOMAIN us
    THEN [us EXCEPT ![username].last_login = now,
                    ![username].failed_attempts = 0,
                    ![username].locked_until = None]
    ELSE us

\* What the login rules promise, kept apart from the file: the failed
\* logins of a user in a row, and the time until which the third of them
\* locks the account.
ClaimedLocked(u) == lockout[u].until # None /\ now < lockout[u].until

ClaimedState(u) ==
    IF u \notin DOMAIN users THEN "unknown"
    ELSE IF ClaimedLocked(u) THEN "locked"
    ELSE IF lockout[u].until # None THEN "expired"
    ELSE "open"

Claimed(username, password) ==
    IF ClaimedState(username) \in {"unknown", "locked"} THEN lockout
    ELSE LET n == (IF lockout[username].until # None THEN 0
                   ELSE lockout[username].failed) + 1
         IN  [lockout EXCEPT ![username] =
                 IF password = @.password
                 THEN [@ EXCEPT !.failed = 0, !.until = None]
                 ELSE [@ EXCEPT !.failed = n,
                                !.until = IF n = LockThreshold
                                          THEN now + LockMinutes ELSE None]]

\* The attempt that has just returned.
Returned(username, password, result) ==
    [n |-> attempt.n + 1, username |-> username, password |-> password,
     claimed |-> ClaimedState(username), result |-> result]

\* Time passes: half a lock period.
Elapse ==
    /\ now + LockMinutes \div 2 <= MaxWaits * (LockMinutes \div 2)
    /\ now' = now + LockMinutes \div 2
    /\ UNCHANGED <<ai_conversations, documents, encounters, audit_log, ai_logs>>
    /\ UNCHANGED <<sessionVars, ctxVars, probeVars, countVars, authVars>>

\* login_user, lines 90-103, run from its first line to its return with no
\* other session in between.
login_user(username, password) ==
    LET chk == is_account_locked(users, username)
        us == chk.users
        user_ok == username \in DOMAIN us
                      /\ verify_password(password, us[username].password)
        result == IF chk.locked THEN "locked"
                  ELSE IF user_ok THEN "success" ELSE "invalid"
        known == username \in DOMAIN users
    IN  /\ attempt.n < MaxLogins
        /\ users' = IF result = "locked" THEN users
                    ELSE IF result = "success" THEN record_successful_login(us, username)
                    ELSE record_failed_login(us, username)
        /\ attempt' = Returned(username, password, result)
        /\ lockout' = Claimed(username, password)
        /\ completed' = IF ~known \/ result = "locked" THEN completed
                        ELSE IF result = "success"
                             THEN [completed EXCEPT ![username] = 0]
                        ELSE [completed EXCEPT ![username] =
                                 (IF chk.saved THEN 0 ELSE @) + 1]
        /\ UNCHANGED logins
        /\ UNCHANGED <<storeVars, sessionVars, ctxVars, probeVars, countVars>>

\* register_user, lines 105-124.
register_user(username, password, salt) ==
    /\ username \notin DOMAIN users
    /\ users' = [u \in DOMAIN users \cup {username} |->
                    IF u = username THEN NewUser(password, salt) ELSE users[u]]
    /\ lockout' = [lockout EXCEPT ![username] =
                      [password |-> password, failed |-> 0, until |-> None]]
    /\ UNCHANGED <<logins, attempt, completed>>
    /\ UNCHANGED <<storeVars, sessionVars, ctxVars, probeVars, countVars>>

InitAuth ==
    /\ now = 0
    /\ ai_conversations = <<>>
    /\ documents = <<>>
    /\ encounters = <<>>
    /\ app = [s \in Sessions |-> "app_enhanced"]
    /\ patient_id = [s \in Sessions |-> 1]
    /\ bundle = NoBundle
    /\ SessionsIdle
    /\ LogsEmpty
    /\ ProbesEmpty
    /\ AuthIdle

NextAuth ==
    \/ Elapse
    \/ \E username \in Usernames, password \in Passwords : login_user(username, password)
    \/ \E username \in Usernames, password \in Passwords, salt \in Salts :
          register_user(username, password, salt)

SpecAuth == InitAuth /\ [][NextAuth]_vars

----------------------------------------------------------------------------
(* login_user when several sessions log in at once.  Streamlit runs each   *)
(* session's script in a thread of its own, and auth.py takes no lock      *)
(* around the file: a step below is one load_users or one save_users, and  *)
(* the steps of different sessions interleave.                              *)

InFlight == Cardinality({s \in Sessions : logins[s].at # "idle"})

\* The login form is submitted: login_user is entered (app_enhanced.py,
\* line 77).
LoginCall(s, username, password) ==
    /\ logins[s].at = "idle"
    /\ attempt.n + InFlight < MaxLogins
    /\ logins' = [logins EXCEPT ![s] =
                     [at |-> "is_account_locked", username |-> username,
                      password |-> password, users |-> <<>>]]
    /\ UNCHANGED <<users, lockout, attempt, completed>>
    /\ UNCHANGED <<storeVars, sessionVars, ctxVars, probeVars, countVars>>

\* is_account_locked, lines 56-65: load_users and the test; login_user
\* returns at line 93 when the account is locked.
LockedLoad(s) ==
    LET l == logins[s]
        chk == is_account_locked(users, l.username)
    IN  /\ l.at = "is_account_locked"
        /\ IF chk.locked
           THEN /\ logins' = [logins EXCEPT ![s] = NoLogin]
                /\ attempt' = Returned(l.username, l.password, "locked")
           ELSE /\ logins' = [logins EXCEPT ![s].at =
                                 IF chk.saved THEN "save_users" ELSE "login_user",
                                               ![s].users = chk.users]
                /\ UNCHANGED attempt
        /\ UNCHANGED <<users, lockout, completed>>
        /\ UNCHANGED <<storeVars, sessionVars, ctxVars, probeVars, countVars>>

\* is_account_locked, line 66: save_users writes the dictionary loaded at
\* line 56 with the lock cleared.
UnlockSave(s) ==
    LET l == logins[s] IN
    /\ l.at = "save_users"
    /\ users' = l.users
    /\ completed' = [completed EXCEPT ![l.username] = 0]
    /\ logins' = [logins EXCEPT ![s].at = "login_user"]
    /\ UNCHANGED <<lockout, attempt>>
    /\ UNCHANGED <<storeVars, sessionVars, ctxVars, probeVars, countVars>>

\* login_user, lines 95-98: load_users and verify_password.
LoginLoad(s) ==
    LET l == logins[s]
        user_ok == l.username \in DOMAIN users
                      /\ verify_password(l.password, users[l.username].password)
    IN  /\ l.at = "login_user"
        /\ logins' = [logins EXCEPT ![s].at =
                         IF user_ok THEN "record_successful_login"
                         ELSE "record_failed_login",
                                    ![s].users = users]
        /\ UNCHANGED <<users, lockout, attempt, completed>>
        /\ UNCHANGED <<storeVars, sessionVars, ctxVars, probeVars, countVars>>

\* record_successful_login, lines 82-87, and record_failed_login, lines
\* 71-77: load_users and the change of the record; for a user who is not in
\* the file nothing is saved and login_user returns.
RecordLoad(s) ==
    LET l == logins[s]
        success == l.at = "record_successful_login"
    IN  /\ l.at \in {"record_successful_login", "record_failed_login"}
        /\ IF l.username \in DOMAIN users
           THEN /\ logins' = [logins EXCEPT
                       ![s].at = IF success THEN "save_success" ELSE "save_failure",
                       ![s].users = IF success
                                    THEN record_successful_login(users, l.username)
                                    ELSE record_failed_login(users, l.username)]
                /\ UNCHANGED attempt
           ELSE /\ logins' = [logins EXCEPT ![s] = NoLogin]
                /\ attempt' = Returned(l.username, l.password,
                                       IF success THEN "success" ELSE "invalid")
        /\ UNCHANGED <<users, lockout, completed>>
        /\ UNCHANGED <<storeVars, sessionVars, ctxVars, probeVars, countVars>>

\* record_successful_login, line 88, and record_failed_login, line 78:
\* save_users writes the dictionary loaded by RecordLoad, and login_user
\* returns.
RecordSave(s) ==
    LET l == logins[s]
        success == l.at = "save_success"
    IN  /\ l.at \in {"save_success", "save_failure"}
        /\ users' = l.users
        /\ completed' = [completed EXCEPT ![l.username] = IF success THEN 0 ELSE @ + 1]
        /\ attempt' = Returned(l.username, l.password,
                               IF success THEN "success" ELSE "invalid")
        /\ logins' = [logins EXCEPT ![s] = NoLogin]
        /\ UNCHANGED lockout
        /\ UNCHANGED <<storeVars, sessionVars, ctxVars, probeVars, countVars>>

NextAuthRace ==
    \/ Elapse
    \/ \E s \in Sessions, username \in Usernames, password \in Passwords :
          LoginCall(s, username, password)
    \/ \E s \in Sessions : LockedLoad(s)
    \/ \E s \in Sessions : UnlockSave(s)
    \/ \E s \in Sessions : LoginLoad(s)
    \/ \E s \in Sessions : RecordLoad(s)
    \/ \E s \in Sessions : RecordSave(s)

SpecAuthRace == InitAuth /\ [][NextAuthRace]_vars

----------------------------------------------------------------------------
(* Claims about the chat flow. *)

\* A chat submission of session s is under way or has just ended.
InCall(s) == pc[s] \in {"assembling", "invoking", "persisting", "error", "crashed"}

\* The turns of the session's patient persisted since its call began.
RowsOfCall(s) ==
    {i \in 1..Len(ai_conversations) :
        i > callStart[s] /\ ai_conversations[i].patient_id = patient_id[s]}

UserTurnPersisted(s) ==
    \E i \in RowsOfCall(s) :
        /\ ai_conversations[i].role = "user"
        /\ ai_conversations[i].content = prompt[s]
        /\ ai_conversations[i].patient_id = patient_id[s]

\* C1: when the generation call of a chat submission fails, the call has
\* appended no assistant turn to the patient's history, and exactly one user
\* turn: the message that triggered it.
C1_FailedGenerationKeepsUserTurnOnly ==
    \A s \in Sessions :
        outcome[s] = "generation_error" =>
            /\ \A i \in RowsOfCall(s) : ai_conversations[i].role # "assistant"
            /\ Cardinality(RowsOfCall(s)) = 1
            /\ UserTurnPersisted(s)

\* C1 witness: a generation call has failed, and an earlier call of the same
\* patient has left an assistant turn in the history.
C1_Witness ==
    \E s \in Sessions :
        /\ outcome[s] = "generation_error"
        /\ pc[s] = "error"
        /\ Cardinality(RowsOfCall(s)) = 1
        /\ \E i \in NewRows : ai_conversations[i].role = "assistant"

\* C2: every orchestrated AI call, failed or not, produces exactly one audit
\* entry: the entries written (audit log lines and ai_logs rows) are as many
\* as the calls that have ended.
CallsInFlight == Cardinality({s \in Sessions : pc[s] = "invoking"})

C2_OneAuditEntryPerCall ==
    Len(audit_log) + Len(ai_logs) = aiCalls - CallsInFlight

\* C3: the generation service is invoked only for a chat message whose user
\* turn is persisted, and a call has appended an assistant turn only after
\* its generation returned a reply.
C3_UserTurnBeforeInvocation ==
    \A s \in Sessions :
        /\ pc[s] = "invoking" => UserTurnPersisted(s)
        /\ (InCall(s) /\ \E i \in RowsOfCall(s) : ai_conversations[i].role = "assistant") =>
               /\ outcome[s] \in {"ok", "audit_error"}
               /\ UserTurnPersisted(s)
               /\ \A i, j \in RowsOfCall(s) :
                      (ai_conversations[i].role = "user"
                       /\ ai_conversations[j].role = "assistant") => i < j

\* C3 witness: a call is in flight for a submitted message.
C3_Witness ==
    \E s \in Sessions :
        /\ pc[s] = "invoking"
        /\ prompt[s] # 0
        /\ UserTurnPersisted(s)

\* C8: the messages fed to the generation service are at most ChatWindow
\* turns, the most recent persisted turns of the patient in ascending time
\* order.
C8_WindowIsRecentHistory ==
    \A s \in Sessions :
        pc[s] = "invoking" =>
            /\ Len(window[s]) <= ChatWindow
            /\ window[s] \in {Tail_k(h, ChatWindow) :
                                 h \in get_ai_conversation_history(patient_id[s])}

\* w is the end of h: the last Len(w) elements of h, in the same order.
IsSuffix(w, h) ==
    /\ Len(w) <= Len(h)
    /\ w = SubSeq(h, Len(h) - Len(w) + 1, Len(h))

\* C26: the user/assistant messages of a call are a contiguous suffix of the
\* patient's persisted history as a read returns it at the time of the call:
\* none is sent that the store lacks, none is missing in between, none is
\* out of order.
C26_WindowIsSuffixOfHistory ==
    \A s \in Sessions :
        pc[s] = "invoking" =>
            \E h \in get_ai_conversation_history(patient_id[s]) : IsSuffix(window[s], h)

----------------------------------------------------------------------------
(* Claims about the assembled context.  The code configures no budget for  *)
(* a whole context and no ceiling; the one limit it sets "to avoid token    *)
(* limits" is the cap of line 219, of 8000 characters, which is also the    *)
(* budget of the specification's scenario.                                  *)

Budget == SingleDocCap
HardCeiling == SingleDocCap

RECURSIVE Retained(_)
Retained(sections) ==
    IF sections = <<>> THEN 0 ELSE sections[1].retained + Retained(Tail(sections))

SectionsNamed(name) ==
    SelectSeq(bundle.sections, LAMBDA sec : sec.name = name)

\* C4: the content of every context assembled for a call, whatever its kind,
\* is at most Budget characters.
C4_ContextWithinBudget ==
    Retained(bundle.sections) <= Budget

\* C5: in a context with a current upload that fits the ceiling, the upload
\* is kept in full, and the sections below it are trimmed so that the whole
\* fits the budget: with five stored documents of 10,000 characters, an
\* upload of 500 and a budget of 8000, the stored documents keep at most
\* 7500 characters together.
C5_UploadKeptOthersTrimmed ==
    \A i \in 1..Len(bundle.sections) :
        LET sec == bundle.sections[i] IN
        (sec.name = "current_upload" /\ sec.original <= HardCeiling) =>
            /\ sec.retained = sec.original
            /\ (bundle.kind = "suggestion" =>
                   Retained(SectionsNamed("stored_document")) <= Budget - sec.retained)

\* C6: the generation service is never called with a current upload of more
\* than HardCeiling characters: no context handed to it holds one.
C6_NoCallOverCeiling ==
    \A i \in 1..Len(bundle.sections) :
        bundle.sections[i].name = "current_upload" =>
            bundle.sections[i].original <= HardCeiling

\* C7: in every assembled context, a section that was cut carries a note
\* with the original and the retained character counts, and a section that
\* was not cut carries no note.
C7_CutSectionsMarked ==
    \A i \in 1..Len(bundle.sections) :
        LET sec == bundle.sections[i] IN
        /\ sec.retained < sec.original => sec.marker = "counts"
        /\ sec.retained = sec.original => sec.marker = "none"

\* C17: a failure of the audit sink is degraded, not fatal: a chat call
\* whose reply has been persisted ends as a success (the run reaches the end
\* of the try), never in the branch that reports the call as failed.
C17_AuditFailureDegraded ==
    \A s \in Sessions :
        (InCall(s) /\ \E i \in RowsOfCall(s) : ai_conversations[i].role = "assistant") =>
            /\ pc[s] = "persisting"
            /\ outcome[s] = "ok"

\* C18: a failure to persist a turn is fatal to the chat call: when the
\* append of the user turn fails the service is not invoked (no window was
\* sent) and no assistant turn is persisted, and after a failed append the
\* session's chat list keeps no message that the store does not hold.
C18_PersistenceFailureFatal ==
    \A s \in Sessions :
        outcome[s] = "persistence_error" =>
            /\ pc[s] = "crashed" => window[s] = <<>>
            /\ \A i \in RowsOfCall(s) : ai_conversations[i].role # "assistant"
            /\ \A k \in 1..Len(chat[s][patient_id[s]]) :
                   chat[s][patient_id[s]][k].content # Greeting =>
                       \E i \in RowsOf(patient_id[s]) :
                           Record(i) = chat[s][patient_id[s]][k]

\* C15: each chat or analysis request makes at most one call to the
\* generation service: a call is made either in the step that takes the
\* request or by a run that took one and has not called yet, and after a
\* failed call no call is made until the user submits again.
C15_OneCallPerRequest ==
    [][/\ aiCalls' # aiCalls =>
             /\ aiCalls' = aiCalls + 1
             /\ \/ requests' = requests + 1
                \/ /\ requests' = requests
                   /\ \E s \in Sessions : pc[s] = "assembling" /\ pc'[s] # "assembling"
       /\ \A s \in Sessions :
             (pc'[s] = "assembling" /\ pc[s] # "assembling") => requests' = requests + 1
       /\ \A s \in Sessions :
             (outcome[s] = "generation_error" /\ requests' = requests) =>
                 aiCalls' = aiCalls]_vars

\* C15 witness: the call of a second request has failed and the failure is
\* on display.
C15_Witness ==
    \E s \in Sessions :
        /\ pc[s] = "error"
        /\ outcome[s] = "generation_error"
        /\ requests = 2
        /\ aiCalls = 2

\* C14: a reply that arrives after the user abandoned the call in flight is
\* discarded: no step of an abandoned call adds to the session's chat list or
\* to the persisted history.
C14_StaleResponseDiscarded ==
    [][\A s \in Sessions :
          pc[s] = "abandoned" =>
              /\ chat'[s] = chat[s]
              /\ ai_conversations' = ai_conversations]_vars

\* C12: the persisted history is append-only: every step, Clear Chat and
\* failed generations included, leaves the rows already in ai_conversations
\* in place and unchanged, and a full read of a patient's history then
\* returns every one of the patient's rows.
ReadsReturnEveryRow ==
    \A p \in Patients : \A h \in get_ai_conversation_history(p) :
        /\ Len(h) = Cardinality(RowsOf(p))
        /\ \A i \in RowsOf(p) : \E k \in 1..Len(h) : h[k] = Record(i)

C12_HistoryAppendOnly ==
    [][/\ Len(ai_conversations') >= Len(ai_conversations)
       /\ \A i \in 1..Len(ai_conversations) : ai_conversations'[i] = ai_conversations[i]
       /\ ReadsReturnEveryRow']_vars

\* C12 witness: a session has cleared its chat list of a patient while the
\* store holds turns of that patient written since the start.
C12_Witness ==
    \E s \in Sessions :
        /\ patient_id[s] \in chat_keys[s]
        /\ chat[s][patient_id[s]] = <<>>
        /\ RowsOf(patient_id[s]) \cap NewRows # {}

----------------------------------------------------------------------------
(* Claims about the one-shot analyses. *)

----------------------------------------------------------------------------
(* Claims about the store. *)

\* C11: for each patient the persisted turns are strictly ordered by
\* timestamp in their order of insertion.
C11_TimestampsStrictlyIncrease ==
    \A i, j \in 1..Len(ai_conversations) :
        (i < j /\ ai_conversations[i].patient_id = ai_conversations[j].patient_id) =>
            ai_conversations[i].timestamp < ai_conversations[j].timestamp

\* C13: appends to one patient's conversation are serialized: every order in
\* which the patient's turns are read back by timestamp is the order in which
\* they were appended.
C13_ReadOrderIsAppendOrder ==
    \A p \in Patients : \A o \in OrderByTimestamp(RowsOf(p)) :
        \A k \in 1..(Len(o) - 1) : o[k] < o[k + 1]

\* C9: reading a patient's history twice with no append in between returns
\* identical sequences, also when several turns carry the same timestamp:
\* the reads made since the patient's last append all returned one result.
C9_ReadsIdentical ==
    \A p \in Patients : Cardinality(readsSince[p]) <= 1

\* C10: after appending a turn for patient p, the last element of p's history
\* read back is the turn just appended (same role and content), also when the
\* new turn has the timestamp of an earlier one.
C10_AppendThenReadLast ==
    \A p \in Patients : \A r \in readsSince[p] :
        appended[p] # NoTurn => (r # <<>> /\ Last(r) = appended[p])

\* C22: a chat submission of show_ai_assistant moves from assembling to
\* invoking and from there to persisting or error, and then back to idle: no
\* step out of assembling or invoking leaves these states.  In error the
\* history holds the user turn of the call and no assistant turn; in
\* persisting it holds both.
C22_ChatStateMachine ==
    [][\A s \in Sessions : app[s] = "app_enhanced" =>
          /\ pc[s] = "assembling" => pc'[s] \in {"assembling", "invoking", "error"}
          /\ pc[s] \in {"invoking", "abandoned"} =>
                pc'[s] \in {"invoking", "abandoned", "persisting", "error"}
          /\ pc[s] \in {"persisting", "error"} => pc'[s] \in {pc[s], "idle"}
          /\ pc'[s] = "error" =>
                /\ UserTurnPersisted(s)'
                /\ \A i \in RowsOfCall(s)' : ai_conversations'[i].role # "assistant"
          /\ pc'[s] = "persisting" =>
                /\ UserTurnPersisted(s)'
                /\ \E i \in RowsOfCall(s)' : ai_conversations'[i].role = "assistant"
      ]_vars

\* C24: the stored documents a chat submission picks for the context are at
\* most three, and they are the patient's most recently uploaded ones: no
\* document left out was uploaded later than one that was picked.
C24_RecentDocumentsAreLatest ==
    \A s \in Sessions :
        (app[s] = "app_enhanced" /\ pc[s] \in {"invoking", "crashed"}
            /\ outcome[s] \in {"none", "key_error"}) =>
            LET picked == {recent_docs[s][k] : k \in 1..Len(recent_docs[s])} IN
            /\ Len(recent_docs[s]) = Min(RecentDocuments, Cardinality(DocsOf(patient_id[s])))
            /\ picked \subseteq DocsOf(patient_id[s])
            /\ \A i \in picked : \A j \in DocsOf(patient_id[s]) \ picked :
                  documents[i].upload_time >= documents[j].upload_time

----------------------------------------------------------------------------
(* Claims about the audit log. *)

\* How many times x occurs in the sequence s.
Occurrences(s, x) == Cardinality({i \in 1..Len(s) : s[i] = x})

\* C21: audit entries are append-only: a step adds at most one entry, at
\* the end, leaves the earlier entries as they were, and a read with a limit
\* of the number of entries returns every entry written, as often as it was
\* written.
C21_AuditAppendOnly ==
    [][/\ Len(audit_log') \in {Len(audit_log), Len(audit_log) + 1}
       /\ SubSeq(audit_log', 1, Len(audit_log)) = audit_log
       /\ LET logs == get_audit_logs(Len(audit_log))' IN
          /\ Len(logs) = Len(audit_log')
          /\ \A i \in 1..Len(audit_log') :
                Occurrences(logs, audit_log'[i]) = Occurrences(audit_log', audit_log'[i])
      ]_vars

\* Two chat calls were logged and a read returns both entries, latest first.
C21_Witness ==
    /\ Len(audit_log) = 2
    /\ Len(get_audit_logs(ChatWindow)) = 2
    /\ get_audit_logs(ChatWindow)[2] = audit_log[1]
    /\ audit_log[2].timestamp > audit_log[1].timestamp

----------------------------------------------------------------------------
(* Claims about the documents of a session and the patient selected. *)

\* C25: what a session holds for one patient is not used for another: a
\* multi-document analysis run for the selected patient sends only documents
\* uploaded for that patient, and the rows Save All stores for the selected
\* patient are rows of files uploaded for that patient.
C25_NoCrossPatientDocuments ==
    [][\A s \in Sessions : app[s] = "app_enhanced" =>
          /\ (aiCalls' = aiCalls + 1 /\ bundle'.kind = "multi") =>
                \A k \in 1..Len(bundle'.sections) :
                    bundle'.sections[k].original = PatientFile(patient_id[s]).len
          /\ \A i \in (Len(documents) + 1)..Len(documents') :
                documents'[i].file_path \in Patients =>
                    documents'[i].file_path = documents'[i].patient_id
      ]_vars

----------------------------------------------------------------------------
(* Claims about the upload loop. *)

\* C27: a run of the page while the uploader holds the same files as before
\* appends nothing to the session's list: each uploaded file is in the list
\* at most once.
C27_RerunAppendsNothing ==
    [][\A s \in Sessions :
          upload_run'[s].uploaded_files = upload_run[s].uploaded_files =>
              Len(processed_documents'[s]) <= Len(processed_documents[s])
      ]_vars

\* The types the specification declares as accepted.
DeclaredTypes == {"text/plain", "application/pdf", "image/jpeg", "image/png"}

\* The names of the entries the last run of the loop collected.
NamesOf(docs) == {docs[k].name : k \in 1..Len(docs)}

\* C19: ingestion accepts exactly the declared types: a readable file of a
\* declared type yields a document, and a file of any other declared type
\* yields no document and an error is shown for it.
C19_OnlyDeclaredTypesAccepted ==
    \A s \in Sessions : \A i \in 1..Len(upload_run[s].uploaded_files) :
        LET run == upload_run[s]
            f == run.uploaded_files[i]
        IN
        /\ (f.type \in DeclaredTypes /\ f.ok /\ f.failsAt = 0) =>
              f.name \in NamesOf(run.processed_docs)
        /\ f.type \notin DeclaredTypes =>
              /\ f.name \notin NamesOf(run.processed_docs)
              /\ \E m \in 1..Len(run.shown) :
                    run.shown[m].kind = "error" /\ run.shown[m].name = f.name

\* A file that is ingested when it is uploaded alone.
Ingests(f) ==
    /\ f.ok
    /\ f.failsAt = 0
    /\ (f.type \in {"text/plain", "application/pdf"} \/ IsImage(f.type))

\* C23: a PDF whose text extraction fails on a page after the first still
\* has its metadata captured: the run holds an entry of that file with its
\* page count.
C23_PdfMetadataSurvivesPageFailure ==
    \A s \in Sessions : \A i \in 1..Len(upload_run[s].uploaded_files) :
        LET run == upload_run[s]
            f == run.uploaded_files[i]
        IN
        (f.type = "application/pdf" /\ f.ok /\ f.failsAt \in 2..f.pages) =>
            \E k \in 1..Len(run.processed_docs) :
                /\ run.processed_docs[k].name = f.name
                /\ run.processed_docs[k].pages = f.pages

\* C20: in a batch, the failure of one file is local: the session's list
\* grows by exactly the entries of the files that do not fail, in upload
\* order (files are named by position), and a failed file adds no entry.
C20_BatchFailureIsLocal ==
    [][\A s \in Sessions :
          (upload_run'[s] # upload_run[s]
              \/ Len(processed_documents'[s]) > Len(processed_documents[s])) =>
             LET run == upload_run'[s] IN
             /\ processed_documents'[s] = processed_documents[s] \o run.processed_docs
             /\ NamesOf(run.processed_docs) =
                   {i \in 1..Len(run.uploaded_files) : Ingests(run.uploaded_files[i])}
             /\ \A j, k \in 1..Len(run.processed_docs) :
                   j < k => run.processed_docs[j].name < run.processed_docs[k].name
             /\ \A k \in 1..Len(run.processed_docs) :
                   run.processed_docs[k].size = run.uploaded_files[run.processed_docs[k].name].len
      ]_vars

\* A batch of three files whose second file cannot be decoded: the first and
\* the third are in the session's list, in that order, and the second is not.
C20_Witness ==
    \E s \in Sessions :
        LET run == upload_run[s] IN
        /\ Len(run.uploaded_files) = 3
        /\ Ingests(run.uploaded_files[1])
        /\ ~run.uploaded_files[2].ok
        /\ Ingests(run.uploaded_files[3])
        /\ processed_documents[s] = run.processed_docs
        /\ Len(run.processed_docs) = 2
        /\ run.processed_docs[1].name = 1
        /\ run.processed_docs[2].name = 3
        /\ \E m \in 1..Len(run.shown) : run.shown[m] = [kind |-> "error", name |-> 2]

----------------------------------------------------------------------------
(* Claims about login and lockout. *)

\* C28: once three failed logins in a row have locked an existing user,
\* every login attempt for that user, the one with the right password
\* included, is rejected until the 30 minutes are over and changes neither
\* failed_attempts nor locked_until; the first attempt with the right
\* password after the 30 minutes succeeds.
C28_LockoutHolds ==
    [][(attempt'.n # attempt.n /\ attempt'.username \in DOMAIN users) =>
          LET u == attempt'.username IN
          /\ ClaimedLocked(u) =>
                /\ attempt'.result = "locked"
                /\ users'[u].failed_attempts = users[u].failed_attempts
                /\ users'[u].locked_until = users[u].locked_until
          /\ (ClaimedState(u) = "expired" /\ attempt'.password = lockout[u].password) =>
                attempt'.result = "success"
          /\ (ClaimedState(u) # "locked" /\ attempt'.password # lockout[u].password) =>
                attempt'.result = "invalid"
      ]_vars

\* The right password was rejected while the account was locked.
C28_Witness ==
    /\ attempt.claimed = "locked"
    /\ attempt.username \in DOMAIN users
    /\ attempt.password = lockout[attempt.username].password
    /\ attempt.result = "locked"
    /\ users[attempt.username].locked_until # None
    /\ now < users[attempt.username].locked_until

\* C29: in the user file a user with locked_until set has at least three
\* failed attempts, so a user with fewer than three is not locked; a
\* successful login leaves failed_attempts 0 and locked_until unset, and so
\* does the expiry of a lock when is_account_locked meets it.
C29_LockAndCountAgree ==
    /\ \A u \in DOMAIN users :
          /\ users[u].locked_until # None => users[u].failed_attempts >= LockThreshold
          /\ (users[u].locked_until # None /\ now >= users[u].locked_until) =>
                LET chk == is_account_locked(users, u) IN
                /\ ~chk.locked
                /\ chk.saved
                /\ chk.users[u].failed_attempts = 0
                /\ chk.users[u].locked_until = None
    /\ attempt.result = "success" =>
          /\ users[attempt.username].failed_attempts = 0
          /\ users[attempt.username].locked_until = None

\* A lock has expired and no login has met it yet, after a successful login
\* of another user.
C29_Witness ==
    /\ attempt.result = "success"
    /\ \E u \in DOMAIN users :
          /\ users[u].locked_until # None
          /\ now >= users[u].locked_until

\* C30: with several sessions logging in as one user, no failed attempt is
\* lost: failed_attempts is the number of failed attempts completed since
\* the last success, and three of them leave the account locked.
C30_NoFailedAttemptLost ==
    \A u \in DOMAIN users :
        /\ users[u].failed_attempts = completed[u]
        /\ completed[u] >= LockThreshold => users[u].locked_until # None

====
